---- MODULE Spec2Model ----
(***************************************************************************)
(* A model of opdiag (src/src/opdiag/__init__.py): option contracts (Call, *)
(* Put), composites of contracts built with + and *, the profit-and-loss   *)
(* function _pnl and the price grid that plot builds.                      *)
(*                                                                         *)
(* Objects live in a heap.  A Contract is a record in `contracts`, a       *)
(* Python list is an entry of `lists`, a CompositeContract is an entry of  *)
(* `composites` holding the reference of the list it stores in _contracts. *)
(* References are indices (1-based) into these sequences.                  *)
(*                                                                         *)
(* Numbers.  Strikes, premiums and the prices handed to _pnl are integers. *)
(* A numpy array is a record [shape, data, den]: element i has the value   *)
(* data[i] / den, so the fractional points of np.linspace are exact.  The  *)
(* bounds of plot are given in ticks of 1/Resolution.                      *)
(***************************************************************************)
EXTENDS Integers, Sequences, FiniteSets, TLC

VARIABLES
    contracts,   \* heap of Contract objects: [cls, strike, premium, side]
    lists,       \* heap of Python lists: each a sequence of Contract references
    composites,  \* heap of CompositeContract objects: each the reference of its _contracts list
    last         \* the last call made by the caller: its arguments and its outcome

vars == <<contracts, lists, composites, last>>

-----------------------------------------------------------------------------
(* Bounds of the model *)

MaxObjects == 4      \* Contract and CompositeContract objects alive (Spec)
MaxLegs == 2         \* Contract objects alive (SpecLeg)
MaxSummed == 3       \* Contract and CompositeContract objects alive (SpecSum)
MaxPlotted == 2      \* Contract and CompositeContract objects alive (SpecPlot)
MaxQty == 2          \* largest integer quantity handed to *
Resolution == 2      \* ticks per unit of the bounds handed to plot

-----------------------------------------------------------------------------
(* Input domains *)

Classes == {"Call", "Put"}
Strikes == {-1, 0, 90, 100}
Premiums == {-1, 0, 5}
Sides == {"L", "S", "X"}

\* the legs summed in composites: a straddle, two short legs, a rejected one
SumLegs == {<<"Call", 100, 5, "L">>, <<"Put", 100, 5, "L">>,
            <<"Call", 90, 0, "S">>, <<"Put", 90, 5, "S">>, <<"Put", 100, -1, "L">>}
\* the legs built where the variety of legs is not the point
FewLegs == {<<"Call", 100, 5, "L">>, <<"Put", 90, 0, "S">>, <<"Call", 0, 5, "S">>}

\* price arrays handed to _pnl
PriceSeqs == {<< >>, <<80>>, <<100, 80>>, <<110, 90, 100>>}

\* (underlying_price_min, underlying_price_max) handed to plot, in ticks:
\* the defaults of plot, 0 and 200 ...
DefaultRange == <<0 * Resolution, 200 * Resolution>>
\* ... and short ranges: whole and fractional spans, equal and inverted bounds
ShortRanges == {<<1 * Resolution, 3 * Resolution>>, <<3 * Resolution, 3 * Resolution>>,
                <<2 * Resolution, 1 * Resolution>>, <<3 * Resolution, 0 * Resolution>>,
                <<0, 1>>, <<0, 2 * Resolution + 1>>,
                <<2 * Resolution + 1, 2 * Resolution>>}
PlotRanges == ShortRanges \cup {DefaultRange}
\* the ranges plotted where the grid is not the point
FewRanges == {<<1 * Resolution, 3 * Resolution>>, <<3 * Resolution, 0 * Resolution>>}

\* Python values handed to * as qty: int, bool (a subclass of int), float, str
PyInt(n) == [t |-> "int", v |-> n]
PyBool(b) == [t |-> "bool", v |-> IF b THEN 1 ELSE 0]
PyFloat(n) == [t |-> "float", v |-> n]
PyStr(n) == [t |-> "str", v |-> n]
QtyValues == {PyInt(n) : n \in -1..MaxQty}
             \cup {PyBool(TRUE), PyBool(FALSE), PyFloat(2), PyStr(2)}

-----------------------------------------------------------------------------
(* Values *)

None == [none |-> TRUE]
Raise(e) == [exc |-> e]
IsRaise(x) == "exc" \in DOMAIN x

\* a one-dimensional array of the rationals data[i] / den
ndarray(data, den) == [shape |-> <<Len(data)>>, data |-> data, den |-> den]
\* the zero-dimensional result numpy gives for a reduction over nothing
scalar(v) == [shape |-> << >>, data |-> <<v>>, den |-> 1]

Max(a, b) == IF a >= b THEN a ELSE b

-----------------------------------------------------------------------------
(* Contract.__init__ *)

\* Contract.__init__ with the strike test written < instead of <=
Contract_init_zero_strike(strike, premium, side) ==
    IF strike < 0 \/ premium < 0 \/ side \notin {"L", "S"}
    THEN "ValueError"
    ELSE ""

\* "" when the constructor returns, the name of the exception when it raises
Contract_init(strike, premium, side) ==
    IF strike <= 0 \/ premium < 0 \/ side \notin {"L", "S"}
    THEN "ValueError"
    ELSE ""

-----------------------------------------------------------------------------
(* Call._pnl, Put._pnl, CompositeContract._pnl *)

\* Call._pnl with the two cases of the match exchanged
Call_pnl_sides_exchanged(self, underlying_prices) ==
    LET den == underlying_prices.den
        P == underlying_prices.data
        intrinsic_value == [i \in 1..Len(P) |-> Max(P[i] - self.strike * den, 0)]
    IN  CASE self.side = "S" ->
               ndarray([i \in 1..Len(P) |-> intrinsic_value[i] - self.premium * den], den)
          [] self.side = "L" ->
               ndarray([i \in 1..Len(P) |-> self.premium * den - intrinsic_value[i]], den)
          [] OTHER -> Raise("ValueError")

Call_pnl(self, underlying_prices) ==
    LET den == underlying_prices.den
        P == underlying_prices.data
        intrinsic_value == [i \in 1..Len(P) |-> Max(P[i] - self.strike * den, 0)]
    IN  CASE self.side = "L" ->
               ndarray([i \in 1..Len(P) |-> intrinsic_value[i] - self.premium * den], den)
          [] self.side = "S" ->
               ndarray([i \in 1..Len(P) |-> self.premium * den - intrinsic_value[i]], den)
          [] OTHER -> Raise("ValueError")

Put_pnl(self, underlying_prices) ==
    LET den == underlying_prices.den
        P == underlying_prices.data
        intrinsic_value == [i \in 1..Len(P) |-> Max(self.strike * den - P[i], 0)]
    IN  CASE self.side = "L" ->
               ndarray([i \in 1..Len(P) |-> intrinsic_value[i] - self.premium * den], den)
          [] self.side = "S" ->
               ndarray([i \in 1..Len(P) |-> self.premium * den - intrinsic_value[i]], den)
          [] OTHER -> Raise("ValueError")

\* dynamic dispatch of contract._pnl on the class of the object
Contract_pnl(self, underlying_prices) ==
    IF self.cls = "Call"
    THEN Call_pnl(self, underlying_prices)
    ELSE Put_pnl(self, underlying_prices)

RECURSIVE ColumnSum(_, _, _)
\* arrays[1].data[i] + ... + arrays[k].data[i]
ColumnSum(arrays, k, i) ==
    IF k = 0 THEN 0 ELSE ColumnSum(arrays, k - 1, i) + arrays[k].data[i]

\* np.sum that leaves the last array of the list out
np_sum_axis0_short(arrays) ==
    IF arrays = << >>
    THEN scalar(0)
    ELSE ndarray([i \in 1..Len(arrays[1].data) |-> ColumnSum(arrays, Len(arrays) - 1, i)],
                 arrays[1].den)

\* np.sum(arrays, axis=0) of a list of one-dimensional arrays of one length.
\* The empty list is the array of shape (0,), whose sum along axis 0 is the
\* zero-dimensional 0.0.
np_sum_axis0(arrays) ==
    IF arrays = << >>
    THEN scalar(0)
    ELSE ndarray([i \in 1..Len(arrays[1].data) |-> ColumnSum(arrays, Len(arrays), i)],
                 arrays[1].den)

\* CompositeContract._pnl, given the Contract objects of self._contracts
CompositeContract_pnl(members, underlying_prices) ==
    np_sum_axis0([k \in 1..Len(members) |-> Contract_pnl(members[k], underlying_prices)])

\* the Contract objects a list refers to, in the heap h
Deref(h, list) == [k \in 1..Len(list) |-> h[list[k]]]

-----------------------------------------------------------------------------
(* CompositeContract.plot: the grid, the PnL series and the call of the renderer *)

\* int(x) of a float x given in ticks: truncation towards zero
int(ticks) ==
    IF ticks >= 0 THEN ticks \div Resolution ELSE -((-ticks) \div Resolution)

\* np.linspace(start, stop, num), start and stop in ticks
np_linspace(start, stop, num) ==
    IF num < 0 THEN Raise("ValueError")
    ELSE IF num = 0 THEN ndarray(<< >>, Resolution)
    ELSE IF num = 1 THEN ndarray(<<start>>, Resolution)
    ELSE ndarray([i \in 1..num |-> start * (num - 1) + (i - 1) * (stop - start)],
                 Resolution * (num - 1))

\* the number of samples without the + 1
GridSize_no_endpoint(underlying_price_min, underlying_price_max) ==
    int(underlying_price_max - underlying_price_min)

\* the number of samples plot asks np.linspace for
GridSize(underlying_price_min, underlying_price_max) ==
    int(underlying_price_max - underlying_price_min) + 1

\* CompositeContract.plot, given the Contract objects of self._contracts:
\* what the call raises and what it hands to the renderer
CompositeContract_plot(members, underlying_price_min, underlying_price_max) ==
    LET underlying_prices ==
            np_linspace(underlying_price_min, underlying_price_max,
                        GridSize(underlying_price_min, underlying_price_max))
    IN  IF IsRaise(underlying_prices)
        THEN [exc |-> underlying_prices.exc, rendered |-> FALSE,
              underlying_prices |-> None, pnl |-> None, strikes |-> << >>]
        ELSE [exc |-> "", rendered |-> TRUE,
              underlying_prices |-> underlying_prices,
              pnl |-> CompositeContract_pnl(members, underlying_prices),
              strikes |-> [k \in 1..Len(members) |-> members[k].strike]]

-----------------------------------------------------------------------------
(* Contract.__add__, Contract.__mul__ *)

Repeat(x, n) == [i \in 1..n |-> x]

\* the operand of +: a Contract, a CompositeContract, or something else
RhsContract(ref) == [t |-> "Contract", ref |-> ref]
RhsComposite(ref) == [t |-> "CompositeContract", ref |-> ref]
RhsOther == [t |-> "other", ref |-> 0]

\* the list built by `[self, rhs]`: a new list object
PairList(ls, self, rhs) ==
    [exc |-> "", lists |-> Append(ls, <<self, rhs>>), list |-> Len(ls) + 1]

\* `rhs._contracts + [self]`: self put last instead of first
PrependList_appends(ls, cs, self, rhs) ==
    [exc |-> "", lists |-> Append(ls, ls[cs[rhs]] \o <<self>>), list |-> Len(ls) + 1]

\* `rhs._contracts.insert(0, self)`: the list of rhs changed in place and shared
PrependList_in_place(ls, cs, self, rhs) ==
    [exc |-> "", lists |-> [ls EXCEPT ![cs[rhs]] = <<self>> \o @], list |-> cs[rhs]]

\* the list built by `[self] + rhs._contracts`: a new list object
PrependList(ls, cs, self, rhs) ==
    [exc |-> "", lists |-> Append(ls, <<self>> \o ls[cs[rhs]]), list |-> Len(ls) + 1]

\* Contract.__add__: the exception raised, the heap of lists afterwards and
\* the list handed to the constructor of the new CompositeContract
Contract_add(ls, cs, self, rhs) ==
    IF rhs.t = "Contract" THEN PairList(ls, self, rhs.ref)
    ELSE IF rhs.t = "CompositeContract" THEN PrependList(ls, cs, self, rhs.ref)
    ELSE [exc |-> "TypeError", lists |-> ls, list |-> 0]

\* isinstance(qty, int): bool is a subclass of int
IsInstanceInt(qty) == qty.t \in {"int", "bool"}

\* Contract.__mul__ building one repetition too few
Contract_mul_one_short(ls, self, qty) ==
    IF ~IsInstanceInt(qty) \/ qty.v <= 0
    THEN [exc |-> "ValueError", lists |-> ls, list |-> 0]
    ELSE [exc |-> "", lists |-> Append(ls, Repeat(self, qty.v - 1)), list |-> Len(ls) + 1]

\* Contract.__mul__
Contract_mul(ls, self, qty) ==
    IF ~IsInstanceInt(qty) \/ qty.v <= 0
    THEN [exc |-> "ValueError", lists |-> ls, list |-> 0]
    ELSE [exc |-> "", lists |-> Append(ls, Repeat(self, qty.v)), list |-> Len(ls) + 1]

-----------------------------------------------------------------------------
(* The calls a caller makes *)

Init ==
    /\ contracts = << >>
    /\ lists = << >>
    /\ composites = << >>
    /\ last = [op |-> "none"]

ContractRefs == 1..Len(contracts)
CompositeRefs == 1..Len(composites)

\* Call(strike, premium, side) or Put(strike, premium, side)
NewContract(cls, strike, premium, side) ==
    LET exc == Contract_init(strike, premium, side)
    IN  IF exc # ""
        THEN /\ last' = [op |-> "init", cls |-> cls, strike |-> strike,
                         premium |-> premium, side |-> side, exc |-> exc, ref |-> 0]
             /\ UNCHANGED <<contracts, lists, composites>>
        ELSE /\ contracts' = Append(contracts, [cls |-> cls, strike |-> strike,
                                                premium |-> premium, side |-> side])
             /\ last' = [op |-> "init", cls |-> cls, strike |-> strike,
                         premium |-> premium, side |-> side, exc |-> "",
                         ref |-> Len(contracts) + 1]
             /\ UNCHANGED <<lists, composites>>

\* CompositeContract(members), members a list the caller has just built
NewComposite(members) ==
    /\ lists' = Append(lists, members)
    /\ composites' = Append(composites, Len(lists) + 1)
    /\ last' = [op |-> "composite", members |-> members, exc |-> "",
                ref |-> Len(composites) + 1]
    /\ UNCHANGED contracts

\* self + rhs
Add(self, rhs) ==
    LET r == Contract_add(lists, composites, self, rhs)
    IN  IF r.exc # ""
        THEN /\ last' = [op |-> "add", self |-> self, rhs |-> rhs, exc |-> r.exc, ref |-> 0]
             /\ UNCHANGED <<contracts, lists, composites>>
        ELSE /\ lists' = r.lists
             /\ composites' = Append(composites, r.list)
             /\ last' = [op |-> "add", self |-> self, rhs |-> rhs, exc |-> "",
                         ref |-> Len(composites) + 1]
             /\ UNCHANGED contracts

\* self * qty
Mul(self, qty) ==
    LET r == Contract_mul(lists, self, qty)
    IN  IF r.exc # ""
        THEN /\ last' = [op |-> "mul", self |-> self, qty |-> qty, exc |-> r.exc, ref |-> 0]
             /\ UNCHANGED <<contracts, lists, composites>>
        ELSE /\ lists' = r.lists
             /\ composites' = Append(composites, r.list)
             /\ last' = [op |-> "mul", self |-> self, qty |-> qty, exc |-> "",
                         ref |-> Len(composites) + 1]
             /\ UNCHANGED contracts

\* contract._pnl(np.array(prices))
ContractPnl(self, prices) ==
    /\ last' = [op |-> "pnl", t |-> "Contract", self |-> self, prices |-> prices,
                result |-> Contract_pnl(contracts[self], ndarray(prices, 1))]
    /\ UNCHANGED <<contracts, lists, composites>>

\* composite._pnl(np.array(prices))
CompositePnl(self, prices) ==
    /\ last' = [op |-> "pnl", t |-> "CompositeContract", self |-> self, prices |-> prices,
                result |-> CompositeContract_pnl(Deref(contracts, lists[composites[self]]),
                                                 ndarray(prices, 1))]
    /\ UNCHANGED <<contracts, lists, composites>>

\* contract.plot(lo, hi): wraps self in a temporary one-element composite,
\* which nothing refers to once the call returns
ContractPlot(self, lo, hi) ==
    /\ last' = [op |-> "plot", t |-> "Contract", self |-> self, lo |-> lo, hi |-> hi,
                out |-> CompositeContract_plot(Deref(contracts, <<self>>), lo, hi)]
    /\ UNCHANGED <<contracts, lists, composites>>

\* composite.plot(lo, hi)
CompositePlot(self, lo, hi) ==
    /\ last' = [op |-> "plot", t |-> "CompositeContract", self |-> self, lo |-> lo, hi |-> hi,
                out |-> CompositeContract_plot(Deref(contracts, lists[composites[self]]),
                                               lo, hi)]
    /\ UNCHANGED <<contracts, lists, composites>>

\* the lists a caller builds for CompositeContract(...): empty or one contract
CallerLists == {<< >>} \cup {<<c>> : c \in ContractRefs}

Rhs == {RhsContract(c) : c \in ContractRefs}
       \cup {RhsComposite(k) : k \in CompositeRefs} \cup {RhsOther}

AllLegs == Classes \X Strikes \X Premiums \X Sides

\* the number of objects alive
Objects == Len(contracts) + Len(composites)

\* every operation, on a few kinds of legs
Next ==
    \/ \E a \in FewLegs : Objects < MaxObjects /\ NewContract(a[1], a[2], a[3], a[4])
    \/ \E m \in CallerLists : Objects < MaxObjects /\ NewComposite(m)
    \/ \E c \in ContractRefs, r \in Rhs : Objects < MaxObjects /\ Add(c, r)
    \/ \E c \in ContractRefs, q \in QtyValues : Objects < MaxObjects /\ Mul(c, q)
    \/ \E c \in ContractRefs, p \in PriceSeqs : ContractPnl(c, p)
    \/ \E k \in CompositeRefs, p \in PriceSeqs : CompositePnl(k, p)
    \/ \E c \in ContractRefs, r \in FewRanges : ContractPlot(c, r[1], r[2])
    \/ \E k \in CompositeRefs, r \in FewRanges : CompositePlot(k, r[1], r[2])

Spec == Init /\ [][Next]_vars

\* single legs of every kind: construction and PnL
NextLeg ==
    \/ \E a \in AllLegs : Len(contracts) < MaxLegs /\ NewContract(a[1], a[2], a[3], a[4])
    \/ \E c \in ContractRefs, p \in PriceSeqs : ContractPnl(c, p)

SpecLeg == Init /\ [][NextLeg]_vars

\* sums of legs: composites built from contracts, and their PnL
NextSum ==
    \/ \E a \in SumLegs : Objects < MaxSummed /\ NewContract(a[1], a[2], a[3], a[4])
    \/ \E m \in CallerLists : Objects < MaxSummed /\ NewComposite(m)
    \/ \E c \in ContractRefs, r \in Rhs : Objects < MaxSummed /\ Add(c, r)
    \/ \E c \in ContractRefs, q \in QtyValues : Objects < MaxSummed /\ Mul(c, q)
    \/ \E c \in ContractRefs, p \in PriceSeqs : ContractPnl(c, p)
    \/ \E k \in CompositeRefs, p \in PriceSeqs : CompositePnl(k, p)

SpecSum == Init /\ [][NextSum]_vars

\* plotting over every range, the defaults included
NextPlot ==
    \/ \E a \in FewLegs : Objects < MaxPlotted /\ NewContract(a[1], a[2], a[3], a[4])
    \/ \E m \in CallerLists : Objects < MaxPlotted /\ NewComposite(m)
    \/ \E c \in ContractRefs, r \in PlotRanges : ContractPlot(c, r[1], r[2])
    \/ \E k \in CompositeRefs, r \in PlotRanges : CompositePlot(k, r[1], r[2])

SpecPlot == Init /\ [][NextPlot]_vars

-----------------------------------------------------------------------------
(* Claims about single legs, checked under SpecLeg *)

\* the payoff of a leg at price P, by cases on where P lies against the strike
Payoff(c, P) ==
    LET K == c.strike
        p == c.premium
        intrinsic == IF c.cls = "Call"
                     THEN (IF P > K THEN P - K ELSE 0)
                     ELSE (IF P < K THEN K - P ELSE 0)
    IN  IF c.side = "L" THEN intrinsic - p ELSE p - intrinsic

\* C1: for every constructed contract (strike K > 0, premium p >= 0) and every
\* price P of the input, the PnL at P is max(P-K,0) - p for a Long Call,
\* p - max(P-K,0) for a Short Call, max(K-P,0) - p for a Long Put and
\* p - max(K-P,0) for a Short Put, and the output has the length and the order
\* of the input.
C1_LegPnl ==
    (last.op = "pnl" /\ last.t = "Contract") =>
        LET c == contracts[last.self]
            r == last.result
        IN  /\ c.strike > 0 /\ c.premium >= 0
            /\ ~IsRaise(r)
            /\ r.shape = <<Len(last.prices)>>
            /\ Len(r.data) = Len(last.prices)
            /\ \A i \in 1..Len(last.prices) :
                   r.data[i] = Payoff(c, last.prices[i]) * r.den

\* a Short Put evaluated at three prices, one of them below its strike
C1_Witness ==
    /\ last.op = "pnl" /\ last.t = "Contract"
    /\ contracts[last.self].cls = "Put" /\ contracts[last.self].side = "S"
    /\ Len(last.prices) = 3
    /\ \E i \in 1..3 : last.prices[i] < contracts[last.self].strike
    /\ \E i \in 1..3 : last.result.data[i] < 0

ValidArguments(strike, premium, side) ==
    strike > 0 /\ premium >= 0 /\ side \in {"L", "S"}

\* C6: constructing a Call or a Put succeeds exactly when strike > 0,
\* premium >= 0 and side is "L" or "S"; otherwise it raises ValueError and no
\* contract is produced, so every contract alive has strike > 0, premium >= 0
\* and side "L" or "S".
C6_Construction ==
    /\ [](/\ \A i \in 1..Len(contracts) :
                ValidArguments(contracts[i].strike, contracts[i].premium, contracts[i].side)
          /\ last.op = "init" =>
                /\ (last.exc = "") <=> ValidArguments(last.strike, last.premium, last.side)
                /\ last.exc \in {"", "ValueError"}
                /\ last.exc = "" =>
                      /\ last.ref = Len(contracts)
                      /\ contracts[last.ref] = [cls |-> last.cls, strike |-> last.strike,
                                                premium |-> last.premium, side |-> last.side]
                /\ last.exc # "" => last.ref = 0)
    /\ [][last'.op = "init" =>
            IF ValidArguments(last'.strike, last'.premium, last'.side)
            THEN Len(contracts') = Len(contracts) + 1
            ELSE contracts' = contracts]_vars

\* a construction refused for its strike of 0 alone, after one that succeeded
C6_Witness ==
    /\ last.op = "init" /\ last.exc = "ValueError"
    /\ last.strike = 0 /\ last.premium >= 0 /\ last.side \in {"L", "S"}
    /\ Len(contracts) = 1

-----------------------------------------------------------------------------
(* Claims about sums of legs, checked under SpecSum *)

\* the member list of composite k, and its PnL over the prices P
Members(k) == lists[composites[k]]
PnlOf(k, P) == CompositeContract_pnl(Deref(contracts, Members(k)), ndarray(P, 1))
LegPnl(c, P) == Contract_pnl(contracts[c], ndarray(P, 1))

\* C2: for all contracts c1 and c2 and every price sequence, the PnL of
\* c1 + c2 is at every price the sum of the PnL of c1 and the PnL of c2; the
\* straddle Long Call K=100 p=5 plus Long Put K=100 p=5 gives 10 at P=80 and
\* -10 at P=100.
C2_AddPnl ==
    /\ (last.op = "add" /\ last.rhs.t = "Contract") =>
          /\ last.exc = ""
          /\ \A P \in PriceSeqs :
                LET sum == PnlOf(last.ref, P)
                    a == LegPnl(last.self, P)
                    b == LegPnl(last.rhs.ref, P)
                IN  /\ sum.shape = <<Len(P)>>
                    /\ \A i \in 1..Len(P) : sum.data[i] = a.data[i] + b.data[i]
          /\ (/\ contracts[last.self] =
                    [cls |-> "Call", strike |-> 100, premium |-> 5, side |-> "L"]
              /\ contracts[last.rhs.ref] =
                    [cls |-> "Put", strike |-> 100, premium |-> 5, side |-> "L"])
                => PnlOf(last.ref, <<100, 80>>).data = <<-10, 10>>
    /\ (last.op = "pnl" /\ last.t = "CompositeContract" /\ Len(Members(last.self)) = 2) =>
          \A i \in 1..Len(last.prices) :
              last.result.data[i] = LegPnl(Members(last.self)[1], last.prices).data[i]
                                    + LegPnl(Members(last.self)[2], last.prices).data[i]

\* the PnL of a composite of a Call and a Put, taken at two prices
C2_Witness ==
    /\ last.op = "pnl" /\ last.t = "CompositeContract"
    /\ Len(Members(last.self)) = 2
    /\ contracts[Members(last.self)[1]].cls = "Call"
    /\ contracts[Members(last.self)[2]].cls = "Put"
    /\ last.prices = <<100, 80>>
    /\ last.result.data = <<-10, 10>>

\* C3: for every contract c and every positive integer n, c * n is a
\* composite of exactly n members, each of them c, and its PnL at every price
\* is n times the PnL of c.
C3_MulPnl ==
    (last.op = "mul" /\ last.qty.t = "int" /\ last.qty.v > 0) =>
        /\ last.exc = ""
        /\ Len(Members(last.ref)) = last.qty.v
        /\ \A j \in 1..Len(Members(last.ref)) : Members(last.ref)[j] = last.self
        /\ \A P \in PriceSeqs :
              /\ PnlOf(last.ref, P).shape = <<Len(P)>>
              /\ \A i \in 1..Len(P) :
                    PnlOf(last.ref, P).data[i] = last.qty.v * LegPnl(last.self, P).data[i]

\* a Short leg taken twice
C3_Witness ==
    /\ last.op = "mul" /\ last.qty = PyInt(2) /\ last.exc = ""
    /\ contracts[last.self].side = "S"
    /\ Members(last.ref) = <<last.self, last.self>>

\* C5: the PnL of a composite built from an empty list is, for every price
\* sequence, a sequence of the length of the prices whose elements are all zero.
C5_EmptyPnl ==
    (last.op = "pnl" /\ last.t = "CompositeContract" /\ Members(last.self) = << >>) =>
        /\ last.result.shape = <<Len(last.prices)>>
        /\ Len(last.result.data) = Len(last.prices)
        /\ \A i \in 1..Len(last.result.data) : last.result.data[i] = 0

\* C9: replicating with a count that is not a positive integer (zero, a
\* negative integer, a float, a string or a boolean) raises ValueError and
\* returns no composite; only positive integer counts succeed.
C9_MulRejects ==
    last.op = "mul" =>
        IF last.qty.t = "int" /\ last.qty.v > 0
        THEN last.exc = "" /\ last.ref = Len(composites)
        ELSE last.exc = "ValueError" /\ last.ref = 0

-----------------------------------------------------------------------------
(* Claims about plot, checked under SpecPlot *)

\* C7: plotting with priceMin >= priceMax (equal bounds, or priceMax below
\* priceMin by less than 1, included) raises ValueError before any grid is
\* generated: no grid, no PnL series, no call of the renderer.
C7_BoundsRejected ==
    (last.op = "plot" /\ last.lo >= last.hi) =>
        /\ last.out.exc = "ValueError"
        /\ last.out.underlying_prices = None
        /\ last.out.pnl = None
        /\ ~last.out.rendered

\* the grid of the last plot, its denominator and its size
Grid == last.out.underlying_prices.data
GridDen == last.out.underlying_prices.den
\* floor(priceMax - priceMin) for priceMin < priceMax given in ticks
FloorSpan == (last.hi - last.lo) \div Resolution
\* point i of the grid is the rational x / Resolution (x in ticks)
PointIs(i, x) == Grid[i] * Resolution = x * GridDen
\* consecutive points differ by the rational n / d
StepIs(n, d) == \A i \in 1..(Len(Grid) - 1) : (Grid[i + 1] - Grid[i]) * d = n * GridDen

\* the grid of the defaults: 0, 1, 2, ..., 200
DefaultGrid ==
    (<<last.lo, last.hi>> = DefaultRange) =>
        /\ Len(Grid) = 201
        /\ \A i \in 1..201 : Grid[i] = (i - 1) * GridDen

\* C8 as stated: for every priceMin < priceMax the grid has
\* floor(priceMax - priceMin) + 1 points, evenly spaced, the first priceMin,
\* the last priceMax, with step 1; the defaults give 0, 1, ..., 200.
C8_GridStepOne ==
    (last.op = "plot" /\ last.lo < last.hi) =>
        /\ last.out.exc = ""
        /\ Len(Grid) = FloorSpan + 1
        /\ PointIs(1, last.lo)
        /\ PointIs(Len(Grid), last.hi)
        /\ StepIs(1, 1)
        /\ DefaultGrid

\* C8, amended: for every priceMin < priceMax the grid has
\* floor(priceMax - priceMin) + 1 points, evenly spaced, the first priceMin;
\* when priceMax - priceMin >= 1 the last point is priceMax and the step is
\* (priceMax - priceMin) / floor(priceMax - priceMin), which is 1 exactly when
\* priceMax - priceMin is a whole number; when priceMax - priceMin < 1 the
\* grid is the single point priceMin; the defaults give 0, 1, ..., 200.
C8_Grid ==
    (last.op = "plot" /\ last.lo < last.hi) =>
        /\ last.out.exc = ""
        /\ last.out.rendered
        /\ last.out.underlying_prices.shape = <<FloorSpan + 1>>
        /\ Len(Grid) = FloorSpan + 1
        /\ PointIs(1, last.lo)
        /\ FloorSpan >= 1 =>
              /\ PointIs(Len(Grid), last.hi)
              /\ StepIs(last.hi - last.lo, FloorSpan * Resolution)
              /\ StepIs(1, 1) <=> ((last.hi - last.lo) % Resolution = 0)
        /\ FloorSpan = 0 => Len(Grid) = 1
        /\ DefaultGrid

\* a plot over a span that is no whole number: three points, each apart from
\* the next by more than 1
C8_Witness ==
    /\ last.op = "plot" /\ last.lo < last.hi
    /\ (last.hi - last.lo) % Resolution # 0
    /\ Len(Grid) = 3
    /\ ~StepIs(1, 1)

-----------------------------------------------------------------------------
(* Claims about composition, checked under Spec *)

\* C4: c + d, d a contract, has exactly the members [c, d]; c + k, k a
\* composite of members M, has exactly the members [c] followed by M in the
\* order of M.
C4_AddMembers ==
    (last.op = "add" /\ last.rhs.t # "other") =>
        /\ last.exc = ""
        /\ last.ref = Len(composites)
        /\ last.rhs.t = "Contract" => Members(last.ref) = <<last.self, last.rhs.ref>>
        /\ last.rhs.t = "CompositeContract" =>
              Members(last.ref) = <<last.self>> \o Members(last.rhs.ref)

\* c1 + (c2 + c1) with c1 and c2 two contracts: the members are c1, c2, c1
C4_Witness ==
    /\ last.op = "add" /\ last.rhs.t = "CompositeContract" /\ last.exc = ""
    /\ Len(Members(last.ref)) = 3
    /\ Members(last.ref)[1] # Members(last.ref)[2]
    /\ Members(last.ref)[1] = Members(last.ref)[3]

\* C10: whatever is called (construction, +, *, _pnl, plot), every contract
\* keeps its strike, premium and side and every composite keeps its member
\* sequence; + and * return a new composite with a member list of its own and
\* leave both operands as they were.
C10_NothingMutated ==
    [][/\ Len(contracts') >= Len(contracts)
       /\ \A i \in 1..Len(contracts) : contracts'[i] = contracts[i]
       /\ Len(composites') >= Len(composites)
       /\ \A k \in 1..Len(composites) :
             /\ composites'[k] = composites[k]
             /\ lists'[composites'[k]] = lists[composites[k]]
       /\ \A j \in 1..Len(lists) : lists'[j] = lists[j]
       /\ (Len(composites') > Len(composites) /\ last'.op \in {"add", "mul"}) =>
             /\ Len(composites') = Len(composites) + 1
             /\ composites'[Len(composites')] \notin 1..Len(lists)
             /\ \A k \in 1..Len(composites) :
                   composites'[k] # composites'[Len(composites')]
       /\ last'.op \in {"pnl", "plot"} =>
             UNCHANGED <<contracts, lists, composites>>]_vars

\* a contract added to a composite, both of them alive afterwards, and plotted
C10_Witness ==
    /\ last.op = "plot" /\ last.t = "CompositeContract"
    /\ last.self = 2 /\ Len(composites) = 2
    /\ Len(Members(2)) = Len(Members(1)) + 1
    /\ composites[1] # composites[2]

====
